---- MODULE Spec2Model ----
(***************************************************************************)
(* Model of the request interceptor of openai-mokku (StreamingHandler,     *)
(* streaming.go) and of the chat handler behind it (MockHandler,           *)
(* handler.go).  One request is followed from its arrival to its response: *)
(* requests share no state, so one request is the whole state machine.     *)
(*                                                                         *)
(* A body is a sequence of JSON tokens ("bytes" of the wire): an opening   *)
(* brace, one token per member, a closing brace.  A string is a sequence   *)
(* of characters; a character has a UTF-8 width, and Go's len() counts     *)
(* bytes.                                                                  *)
(***************************************************************************)
EXTENDS Integers, Sequences, FiniteSets, TLC

\* ------------------------------------------------------------------ bounds
MaxMsgs == 2
MaxContentLen == 1
MaxBuf == 2
MaxClock == 2
NumUUIDs == 2

\* --------------------------------------------------------------- constants
CreditErrorModelName == "credit-error"
StatusBadRequest == 400
StatusPaymentRequired == 402
StatusInternalServerError == 500
StatusOK == 200

NoErr == -1

\* ------------------------------------------------------------------ strings
\* Characters of message contents: an ASCII letter and a two-byte letter.
Chars == {"a", "U+00E9"}

Utf8Width(c) == IF c = "U+00E9" THEN 2 ELSE 1

RECURSIVE GoLen(_)
\* len(s) of a Go string: the number of bytes of its UTF-8 encoding
GoLen(s) == IF s = <<>> THEN 0 ELSE Utf8Width(Head(s)) + GoLen(Tail(s))

\* the number of characters (code points) of a string
CharLen(s) == Len(s)

RECURSIVE SeqsUpTo(_, _)
SeqsUpTo(S, n) ==
  IF n = 0 THEN {<<>>}
  ELSE LET shorter == SeqsUpTo(S, n - 1)
       IN  shorter \cup {Append(s, x) : s \in {t \in shorter : Len(t) = n - 1}, x \in S}

Contents == SeqsUpTo(Chars, MaxContentLen)

RoleUser == "user"
Roles == {RoleUser, "assistant"}

\* user messages with every content; the others, whose content is never
\* echoed, with one
Messages ==
  [Role : {RoleUser}, Content : Contents]
    \cup [Role : Roles \ {RoleUser}, Content : {<<"a">>}]
MessageLists == SeqsUpTo(Messages, MaxMsgs)

\* --------------------------------------------------------------- JSON wire
\* JSON values, all of one record shape so that any two can be compared.
JStr(s) == [t |-> "str", s |-> s, b |-> FALSE, a |-> <<>>]
JNum == [t |-> "num", s |-> "", b |-> FALSE, a |-> <<>>]
JBool(b) == [t |-> "bool", s |-> "", b |-> b, a |-> <<>>]
JArr(a) == [t |-> "arr", s |-> "", b |-> FALSE, a |-> a]
JNone == [t |-> "none", s |-> "", b |-> FALSE, a |-> <<>>]

LBrace == [k |-> "{", v |-> JNone]
RBrace == [k |-> "}", v |-> JNone]
Member(k, v) == [k |-> k, v |-> v]

\* What a client may put in each member of the body it sends.
ModelVals == {JNone, JNum, JStr(CreditErrorModelName), JStr("gpt-4")}
StreamVals == {JNone, JStr("yes"), JBool(TRUE), JBool(FALSE)}
MessagesVals == {JNone, JNum} \cup {JArr(m) : m \in MessageLists}

MemberTokens(k, v) == IF v.t = "none" THEN <<>> ELSE <<Member(k, v)>>

\* The client's encoding of a JSON object with the given members.
Serialize(model, stream, messages) ==
  <<LBrace>> \o MemberTokens("model", model) \o MemberTokens("stream", stream)
             \o MemberTokens("messages", messages) \o <<RBrace>>

ObjectBodies ==
  {Serialize(m, s, g) : m \in ModelVals, s \in StreamVals, g \in MessagesVals}

\* Bodies that are not JSON: nothing at all, and an object left open.
GarbageBodies == {<<>>, <<LBrace, Member("model", JStr(CreditErrorModelName))>>}

Bodies == ObjectBodies \cup GarbageBodies

\* A well-formed JSON object: braces around members.
ValidJSON(body) ==
  /\ Len(body) >= 2
  /\ body[1] = LBrace
  /\ body[Len(body)] = RBrace
  /\ \A i \in 2..(Len(body) - 1) : body[i].k \notin {"{", "}"}

HasMember(body, k) == \E i \in 1..Len(body) : body[i].k = k
GetMember(body, k) ==
  IF HasMember(body, k)
  THEN body[CHOOSE i \in 1..Len(body) : body[i].k = k].v
  ELSE JNone

\* ------------------------------------------------------------ JSON decoding
\* json.Unmarshal(body, &modelRequest{}): the model member alone is looked at;
\* a missing member leaves the zero value, a member of another type is an error.
UnmarshalModelRequest(body) ==
  IF ~ValidJSON(body) THEN [err |-> TRUE, Model |-> ""]
  ELSE LET m == GetMember(body, "model")
       IN  IF m.t = "none" THEN [err |-> FALSE, Model |-> ""]
           ELSE IF m.t = "str" THEN [err |-> FALSE, Model |-> m.s]
           ELSE [err |-> TRUE, Model |-> ""]

NoChatRequest ==
  [err |-> TRUE, Model |-> "", Stream |-> [Set |-> FALSE, Value |-> FALSE],
   Messages |-> <<>>]

\* json.Unmarshal(body, &api.CreateChatCompletionRequest{}): model and messages
\* are required and typed, stream is an optional boolean.
UnmarshalChatRequest(body) ==
  IF ~ValidJSON(body) THEN NoChatRequest
  ELSE LET m == GetMember(body, "model")
           s == GetMember(body, "stream")
           g == GetMember(body, "messages")
       IN  IF m.t # "str" \/ g.t # "arr" \/ s.t \notin {"none", "bool"}
           THEN NoChatRequest
           ELSE [err |-> FALSE, Model |-> m.s,
                 Stream |-> [Set |-> s.t = "bool", Value |-> s.b],
                 Messages |-> g.a]

\* ------------------------------------------------------- the response writer
NoQuota == [set |-> FALSE, message |-> "", type |-> "", param |-> "", code |-> ""]

NoHeader ==
  [ContentType |-> "", CacheControl |-> "", Connection |-> "",
   XAccelBuffering |-> "", XContentTypeOptions |-> ""]

\* a line of the response's log: who did what; k is a status or a frame number
Ev(by, op, k, ok) == [by |-> by, op |-> op, k |-> k, ok |-> ok]

NewResponseWriter ==
  [status |-> 0, header |-> NoHeader, sent |-> NoHeader, text |-> "",
   quota |-> NoQuota, frames |-> <<>>, flushed |-> 0, log |-> <<>>]

\* w.WriteHeader(code): the first call fixes the status and sends the headers
\* as they are then; later calls change nothing.
WriteHeader(w, by, code) ==
  IF w.status # 0 THEN w
  ELSE [w EXCEPT !.status = code, !.sent = w.header,
                 !.log = Append(w.log, Ev(by, "status", code, TRUE))]

\* http.Error(w, msg, code): plain-text headers, the status, the message
httpError(w, msg, code) ==
  LET h == [w.header EXCEPT !.ContentType = "text/plain; charset=utf-8",
                            !.XContentTypeOptions = "nosniff"]
      w1 == WriteHeader([w EXCEPT !.header = h], "interceptor", code)
  IN  [w1 EXCEPT !.text = msg,
                 !.log = Append(w1.log, Ev("interceptor", "write", 0, TRUE))]

\* writeCreditError(w): a JSON content type, 402, the fixed quota error
writeCreditError(w) ==
  LET w1 == WriteHeader([w EXCEPT !.header.ContentType = "application/json"],
                        "interceptor", StatusPaymentRequired)
  IN  [w1 EXCEPT !.quota = [set |-> TRUE,
                            message |-> "You exceeded your current quota",
                            type |-> "insufficient_quota",
                            param |-> "null",
                            code |-> "insufficient_quota"],
                 !.log = Append(w1.log, Ev("interceptor", "write", 0, TRUE))]

\* ------------------------------------------------------------ request bodies
\* r.Body: the bytes, the read position, and where the transport fails (NoErr
\* when it does not).
LiveBody(data, errAt) == [data |-> data, pos |-> 0, errAt |-> errAt]

\* newBytesReader(data)
newBytesReader(data) == [data |-> data, pos |-> 0, errAt |-> NoErr]

Min(a, b) == IF a < b THEN a ELSE b

\* Read that copies from the start of data instead of from pos
bytesReaderRead_FromStart(r, n) ==
  IF r.pos >= Len(r.data)
  THEN [n |-> 0, p |-> <<>>, eof |-> TRUE, r |-> r]
  ELSE LET c == Min(n, Len(r.data) - r.pos)
       IN  [n |-> c, p |-> SubSeq(r.data, 1, c), eof |-> FALSE,
            r |-> [r EXCEPT !.pos = r.pos + c]]

\* (r *bytesReader).Read(p) with len(p) = n: the bytes copied, whether io.EOF
\* is returned, and the reader afterwards
bytesReaderRead(r, n) ==
  IF r.pos >= Len(r.data)
  THEN [n |-> 0, p |-> <<>>, eof |-> TRUE, r |-> r]
  ELSE LET c == Min(n, Len(r.data) - r.pos)
       IN  [n |-> c, p |-> SubSeq(r.data, r.pos + 1, r.pos + c), eof |-> FALSE,
            r |-> [r EXCEPT !.pos = r.pos + c]]

\* io.ReadAll(r.Body): everything up to the end, or what was read and an error
ReadAll(r) ==
  IF r.errAt = NoErr
  THEN [data |-> SubSeq(r.data, r.pos + 1, Len(r.data)), err |-> FALSE,
        r |-> [r EXCEPT !.pos = Len(r.data)]]
  ELSE [data |-> SubSeq(r.data, r.pos + 1, r.errAt), err |-> TRUE,
        r |-> [r EXCEPT !.pos = r.errAt]]

\* readBodyAndCheckCreditError that drops the error of io.ReadAll
readBodyAndCheckCreditError_IgnoreReadErr(w, r) ==
  LET ra == ReadAll(r)
      mr == UnmarshalModelRequest(ra.data)
  IN  IF mr.err
      THEN [body |-> <<>>, handled |-> TRUE, r |-> ra.r,
            w |-> httpError(w, "Failed to parse request body", StatusBadRequest)]
      ELSE IF mr.Model = CreditErrorModelName
      THEN [body |-> <<>>, handled |-> TRUE, r |-> ra.r, w |-> writeCreditError(w)]
      ELSE [body |-> ra.data, handled |-> FALSE, r |-> ra.r, w |-> w]

\* readBodyAndCheckCreditError without the comparison with CreditErrorModelName
readBodyAndCheckCreditError_NoCreditCheck(w, r) ==
  LET ra == ReadAll(r)
      mr == UnmarshalModelRequest(ra.data)
  IN  IF ra.err
      THEN [body |-> <<>>, handled |-> TRUE, r |-> ra.r,
            w |-> httpError(w, "Failed to read request body", StatusBadRequest)]
      ELSE IF mr.err
      THEN [body |-> <<>>, handled |-> TRUE, r |-> ra.r,
            w |-> httpError(w, "Failed to parse request body", StatusBadRequest)]
      ELSE [body |-> ra.data, handled |-> FALSE, r |-> ra.r, w |-> w]

\* readBodyAndCheckCreditError(w, r): handled is TRUE when a response was
\* written (400 or 402) and the caller must return.
readBodyAndCheckCreditError(w, r) ==
  LET ra == ReadAll(r)
      mr == UnmarshalModelRequest(ra.data)
  IN  IF ra.err
      THEN [body |-> <<>>, handled |-> TRUE, r |-> ra.r,
            w |-> httpError(w, "Failed to read request body", StatusBadRequest)]
      ELSE IF mr.err
      THEN [body |-> <<>>, handled |-> TRUE, r |-> ra.r,
            w |-> httpError(w, "Failed to parse request body", StatusBadRequest)]
      ELSE IF mr.Model = CreditErrorModelName
      THEN [body |-> <<>>, handled |-> TRUE, r |-> ra.r, w |-> writeCreditError(w)]
      ELSE [body |-> ra.data, handled |-> FALSE, r |-> ra.r, w |-> w]

\* ------------------------------------------------------------ echo synthesis
EchoPrefix == <<"E", "c", "h", "o", ":", " ">>

\* generateEchoResponse(ctx, message): fmt.Sprintf("Echo: %s", message)
generateEchoResponse(message) == EchoPrefix \o message

\* generateEchoResponseForStreaming(ctx, message)
generateEchoResponseForStreaming(message) == EchoPrefix \o message

RECURSIVE lastUserMessageFrom(_, _)
\* the loop of CreateChatCompletion from index i down to 1 (Go: i-1 down to 0)
lastUserMessageFrom(messages, i) ==
  IF i < 1 THEN <<>>
  ELSE IF messages[i].Role = RoleUser THEN messages[i].Content
  ELSE lastUserMessageFrom(messages, i - 1)

\* the first user message instead of the last
lastUserMessage_First(messages) ==
  LET U == {i \in 1..Len(messages) : messages[i].Role = RoleUser}
  IN  IF U = {} THEN <<>>
      ELSE messages[CHOOSE i \in U : \A j \in U : i <= j].Content

\* lastUserMessage of CreateChatCompletion
lastUserMessage(messages) == lastUserMessageFrom(messages, Len(messages))

RECURSIVE lastUserMessageStreamingFrom(_, _)
\* the same loop in handleStreamingRequest
lastUserMessageStreamingFrom(messages, i) ==
  IF i < 1 THEN <<>>
  ELSE IF messages[i].Role = RoleUser THEN messages[i].Content
  ELSE lastUserMessageStreamingFrom(messages, i - 1)

\* lastUserMessage of handleStreamingRequest
lastUserMessageStreaming(messages) ==
  lastUserMessageStreamingFrom(messages, Len(messages))

\* ----------------------------------------------------- non-streaming handler
ChatID(u) == [prefix |-> "chatcmpl-", uuid |-> u]
NoID == [prefix |-> "", uuid |-> 0]

NoCompletion ==
  [set |-> FALSE, ID |-> NoID, Created |-> 0, Model |-> "", Role |-> "",
   Content |-> <<>>, FinishReason |-> "",
   Usage |-> [PromptTokens |-> 0, CompletionTokens |-> 0, TotalTokens |-> 0],
   SystemFingerprint |-> ""]

\* usage counted in characters instead of bytes
CompletionUsage_Chars(last, echoMessage) ==
  [PromptTokens |-> CharLen(last),
   CompletionTokens |-> CharLen(echoMessage),
   TotalTokens |-> CharLen(last) + CharLen(echoMessage)]

\* the usage block of CreateChatCompletion
CompletionUsage(last, echoMessage) ==
  [PromptTokens |-> GoLen(last),
   CompletionTokens |-> GoLen(echoMessage),
   TotalTokens |-> GoLen(last) + GoLen(echoMessage)]

\* (h *MockHandler).CreateChatCompletion(ctx, req), with the uuid and the time
\* it draws
CreateChatCompletion(chatReq, u, t) ==
  LET last == lastUserMessage(chatReq.Messages)
      echoMessage == generateEchoResponse(last)
  IN  [set |-> TRUE, ID |-> ChatID(u), Created |-> t, Model |-> chatReq.Model,
       Role |-> "assistant", Content |-> echoMessage, FinishReason |-> "stop",
       Usage |-> CompletionUsage(last, echoMessage),
       SystemFingerprint |-> "fp_mock"]

\* ------------------------------------------------------------ stream chunks
\* ChatCompletionChunk with its one choice; FinishReason "" is the nil pointer
ChatCompletionChunk(id, created, model, role, content, finish) ==
  [ID |-> id, Object |-> "chat.completion.chunk", Created |-> created,
   Model |-> model, SystemFingerprint |-> "fp_mock", Index |-> 0,
   Role |-> role, Content |-> content, FinishReason |-> finish]

firstChunk(id, created, model) ==
  ChatCompletionChunk(id, created, model, "assistant", <<>>, "")

\* contentChunk with an identifier generated anew for the chunk
contentChunk_NewID(id, created, model, echoMessage) ==
  ChatCompletionChunk(ChatID((id.uuid % NumUUIDs) + 1), created, model, "",
                      echoMessage, "")

contentChunk(id, created, model, echoMessage) ==
  ChatCompletionChunk(id, created, model, "", echoMessage, "")

finalChunk(id, created, model) ==
  ChatCompletionChunk(id, created, model, "", <<>>, "stop")

\* "data: " + json.Marshal(chunk): role and content are omitempty, a nil
\* finish_reason is written as null
DataFrame(chunk) ==
  [kind |-> "data", id |-> chunk.ID, created |-> chunk.Created,
   model |-> chunk.Model, hasRole |-> chunk.Role # "", role |-> chunk.Role,
   hasContent |-> chunk.Content # <<>>, content |-> chunk.Content,
   finish_reason |-> IF chunk.FinishReason = "" THEN "null" ELSE chunk.FinishReason]

\* the literal frame "data: [DONE]"
DoneFrame ==
  [kind |-> "[DONE]", id |-> NoID, created |-> 0, model |-> "", hasRole |-> FALSE,
   role |-> "", hasContent |-> FALSE, content |-> <<>>, finish_reason |-> "null"]

\* fmt.Fprintf(w, ...) of frame number k: the first Write fixes status 200; ok
\* is whether the transport took the bytes
WriteFrame(w, frame, k, ok) ==
  LET w1 == WriteHeader(w, "interceptor", StatusOK)
  IN  [w1 EXCEPT !.frames = IF ok THEN Append(w1.frames, frame) ELSE w1.frames,
                 !.log = Append(w1.log, Ev("interceptor", "write", k, ok))]

\* writeSSEChunk(w, chunk)
writeSSEChunk(w, chunk, k, ok) == WriteFrame(w, DataFrame(chunk), k, ok)

\* flusher.Flush()
Flush(w) ==
  [w EXCEPT !.flushed = Len(w.frames),
            !.log = Append(w.log, Ev("interceptor", "flush", 0, TRUE))]

\* ------------------------------------------------------------------- state
VARIABLES
  req,         \* the request as the client sends it (never changes)
  pc,          \* "start", "write", "flush", "downstream", "done"
  next,        \* the number of the frame to write next (1..4)
  w,           \* the http.ResponseWriter
  rBody,       \* r.Body
  stream,      \* the locals of handleStreamingRequest
  now,         \* time.Now().Unix()
  nReadBody,   \* calls of readBodyAndCheckCreditError
  nFullParse,  \* full parses of the body by the interceptor
  nDownstream, \* calls of ogenServer.ServeHTTP
  dsBuf,       \* what the downstream responder has read of the body
  completion   \* the non-streaming response written by the downstream responder

vars == <<req, pc, next, w, rBody, stream, now, nReadBody, nFullParse,
          nDownstream, dsBuf, completion>>

ChatPath == "/v1/chat/completions"
CompletionsPath == "/v1/completions"
ModelsPath == "/v1/models"

\* where the transport may fail while body b is read: after its first byte
\* and after its last
ErrPlaces(b) == {IF Len(b) = 0 THEN 0 ELSE 1, Len(b)}

\* POSTs to the two inspected endpoints, with every body, read whole or
\* failing; the chat endpoint also on a transport that cannot flush
InspectedRequests ==
  UNION {[method : {"POST"}, path : {ChatPath}, body : {b},
          errAt : {NoErr} \cup ErrPlaces(b), flusher : BOOLEAN]
           \cup [method : {"POST"}, path : {CompletionsPath}, body : {b},
                 errAt : {NoErr} \cup ErrPlaces(b), flusher : {TRUE}] : b \in Bodies}

\* requests the interceptor does not inspect
OtherRequests ==
  {r \in [method : {"GET", "POST"}, path : {ChatPath, CompletionsPath, ModelsPath},
          body : {<<>>, Serialize(JStr(CreditErrorModelName), JBool(TRUE), JNone),
                  Serialize(JStr("gpt-4"), JBool(TRUE), JArr(<<>>))},
          errAt : {NoErr}, flusher : {TRUE}] :
     ~(r.method = "POST" /\ r.path \in {ChatPath, CompletionsPath})}

Requests == InspectedRequests \cup OtherRequests

NoStream == [completionID |-> NoID, created |-> 0, Model |-> "", echoMessage |-> <<>>]

Init ==
  /\ req \in Requests
  /\ pc = "start"
  /\ next = 1
  /\ w = NewResponseWriter
  /\ rBody = LiveBody(req.body, req.errAt)
  /\ stream = NoStream
  /\ now = 1
  /\ nReadBody = 0
  /\ nFullParse = 0
  /\ nDownstream = 0
  /\ dsBuf = <<>>
  /\ completion = NoCompletion

\* ------------------------------------------------------------- interceptor
\* handleStreamingRequest that does not look at the result of w.(http.Flusher)
handleStreamingRequest_NoFlusherCheck(cw, chatReq, flusher, u, t) ==
  LET last == lastUserMessageStreaming(chatReq.Messages)
      echoMessage == generateEchoResponseForStreaming(last)
      w1 == [cw EXCEPT !.header.ContentType = "text/event-stream",
                       !.header.CacheControl = "no-cache",
                       !.header.Connection = "keep-alive",
                       !.header.XAccelBuffering = "no",
                       !.log = Append(cw.log, Ev("interceptor", "header", 0, TRUE))]
  IN  [w |-> w1, pc |-> "write",
       stream |-> [completionID |-> ChatID(u), created |-> t,
                   Model |-> chatReq.Model, echoMessage |-> echoMessage]]

\* handleStreamingRequest up to its first write: the echo, the SSE headers,
\* the flusher check, the identifier and the timestamp
handleStreamingRequest(cw, chatReq, flusher, u, t) ==
  LET last == lastUserMessageStreaming(chatReq.Messages)
      echoMessage == generateEchoResponseForStreaming(last)
      w1 == [cw EXCEPT !.header.ContentType = "text/event-stream",
                       !.header.CacheControl = "no-cache",
                       !.header.Connection = "keep-alive",
                       !.header.XAccelBuffering = "no",
                       !.log = Append(cw.log, Ev("interceptor", "header", 0, TRUE))]
  IN  IF ~flusher
      THEN [w |-> httpError(w1, "Streaming not supported", StatusInternalServerError),
            pc |-> "done", stream |-> NoStream]
      ELSE [w |-> w1, pc |-> "write",
            stream |-> [completionID |-> ChatID(u), created |-> t,
                        Model |-> chatReq.Model, echoMessage |-> echoMessage]]

\* ChatBlock that drops the error of the full parse and goes on with what was
\* decoded
ChatBlock_IgnoreParseErr(rq, c, u, t) ==
  IF ~(rq.method = "POST" /\ rq.path = ChatPath) THEN c
  ELSE LET rc == readBodyAndCheckCreditError(c.w, c.r)
           chatReq == UnmarshalChatRequest(rc.body)
           c1 == [c EXCEPT !.w = rc.w, !.r = rc.r, !.nReadBody = c.nReadBody + 1]
       IN  IF rc.handled THEN [c1 EXCEPT !.ret = TRUE, !.pc = "done"]
           ELSE IF chatReq.Stream.Set /\ chatReq.Stream.Value
           THEN LET h == handleStreamingRequest(rc.w, chatReq, rq.flusher, u, t)
                IN  [c1 EXCEPT !.ret = TRUE, !.pc = h.pc, !.w = h.w,
                               !.stream = h.stream, !.nFullParse = c.nFullParse + 1]
           ELSE [c1 EXCEPT !.r = newBytesReader(rc.body),
                           !.nFullParse = c.nFullParse + 1]

\* ChatBlock that does not return after readBodyAndCheckCreditError has
\* written the response
ChatBlock_NoReturnWhenHandled(rq, c, u, t) ==
  IF ~(rq.method = "POST" /\ rq.path = ChatPath) THEN c
  ELSE LET rc == readBodyAndCheckCreditError(c.w, c.r)
           chatReq == UnmarshalChatRequest(rc.body)
           c1 == [c EXCEPT !.w = rc.w, !.r = rc.r, !.nReadBody = c.nReadBody + 1]
       IN  IF rc.handled THEN c1
           ELSE IF chatReq.err
           THEN [c1 EXCEPT !.ret = TRUE, !.pc = "done", !.nFullParse = c.nFullParse + 1,
                           !.w = httpError(rc.w, "Failed to parse request body",
                                           StatusBadRequest)]
           ELSE IF chatReq.Stream.Set /\ chatReq.Stream.Value
           THEN LET h == handleStreamingRequest(rc.w, chatReq, rq.flusher, u, t)
                IN  [c1 EXCEPT !.ret = TRUE, !.pc = h.pc, !.w = h.w,
                               !.stream = h.stream, !.nFullParse = c.nFullParse + 1]
           ELSE [c1 EXCEPT !.r = newBytesReader(rc.body),
                           !.nFullParse = c.nFullParse + 1]

\* ChatBlock that streams every request that parses, whatever its stream flag
ChatBlock_AlwaysStream(rq, c, u, t) ==
  IF ~(rq.method = "POST" /\ rq.path = ChatPath) THEN c
  ELSE LET rc == readBodyAndCheckCreditError(c.w, c.r)
           chatReq == UnmarshalChatRequest(rc.body)
           c1 == [c EXCEPT !.w = rc.w, !.r = rc.r, !.nReadBody = c.nReadBody + 1]
       IN  IF rc.handled THEN [c1 EXCEPT !.ret = TRUE, !.pc = "done"]
           ELSE IF chatReq.err
           THEN [c1 EXCEPT !.ret = TRUE, !.pc = "done", !.nFullParse = c.nFullParse + 1,
                           !.w = httpError(rc.w, "Failed to parse request body",
                                           StatusBadRequest)]
           ELSE LET h == handleStreamingRequest(rc.w, chatReq, rq.flusher, u, t)
                IN  [c1 EXCEPT !.ret = TRUE, !.pc = h.pc, !.w = h.w,
                               !.stream = h.stream, !.nFullParse = c.nFullParse + 1]

\* the first block of ServeHTTP: POST /v1/chat/completions
ChatBlock(rq, c, u, t) ==
  IF ~(rq.method = "POST" /\ rq.path = ChatPath) THEN c
  ELSE LET rc == readBodyAndCheckCreditError(c.w, c.r)
           chatReq == UnmarshalChatRequest(rc.body)
           c1 == [c EXCEPT !.w = rc.w, !.r = rc.r, !.nReadBody = c.nReadBody + 1]
       IN  IF rc.handled THEN [c1 EXCEPT !.ret = TRUE, !.pc = "done"]
           ELSE IF chatReq.err
           THEN [c1 EXCEPT !.ret = TRUE, !.pc = "done", !.nFullParse = c.nFullParse + 1,
                           !.w = httpError(rc.w, "Failed to parse request body",
                                           StatusBadRequest)]
           ELSE IF chatReq.Stream.Set /\ chatReq.Stream.Value
           THEN LET h == handleStreamingRequest(rc.w, chatReq, rq.flusher, u, t)
                IN  [c1 EXCEPT !.ret = TRUE, !.pc = h.pc, !.w = h.w,
                               !.stream = h.stream, !.nFullParse = c.nFullParse + 1]
           ELSE [c1 EXCEPT !.r = newBytesReader(rc.body),
                           !.nFullParse = c.nFullParse + 1]

\* the second block of ServeHTTP: POST /v1/completions
CompletionsBlock(rq, c) ==
  IF c.ret \/ ~(rq.method = "POST" /\ rq.path = CompletionsPath) THEN c
  ELSE LET rc == readBodyAndCheckCreditError(c.w, c.r)
           c1 == [c EXCEPT !.w = rc.w, !.r = rc.r, !.nReadBody = c.nReadBody + 1]
       IN  IF rc.handled THEN [c1 EXCEPT !.ret = TRUE, !.pc = "done"]
           ELSE [c1 EXCEPT !.r = newBytesReader(rc.body)]

\* (h *StreamingHandler).ServeHTTP(w, r)
ServeHTTP ==
  /\ pc = "start"
  /\ \E u \in 1..NumUUIDs :
       LET c0 == [ret |-> FALSE, pc |-> "start", w |-> w, r |-> rBody,
                  stream |-> stream, nReadBody |-> nReadBody,
                  nFullParse |-> nFullParse]
           c2 == CompletionsBlock(req, ChatBlock(req, c0, u, now))
       IN  /\ w' = c2.w
           /\ rBody' = c2.r
           /\ stream' = c2.stream
           /\ nReadBody' = c2.nReadBody
           /\ nFullParse' = c2.nFullParse
           /\ pc' = IF c2.ret THEN c2.pc ELSE "downstream"
           /\ nDownstream' = IF c2.ret THEN nDownstream ELSE nDownstream + 1
  /\ UNCHANGED <<req, next, now, dsBuf, completion>>

\* ChunkAt with the content chunk and the final chunk in each other's place
ChunkAt_Swapped(st, k) ==
  IF k = 1 THEN firstChunk(st.completionID, st.created, st.Model)
  ELSE IF k = 3 THEN contentChunk(st.completionID, st.created, st.Model, st.echoMessage)
  ELSE finalChunk(st.completionID, st.created, st.Model)

\* the chunk handleStreamingRequest builds for frame k (1..3)
ChunkAt(st, k) ==
  IF k = 1 THEN firstChunk(st.completionID, st.created, st.Model)
  ELSE IF k = 2 THEN contentChunk(st.completionID, st.created, st.Model, st.echoMessage)
  ELSE finalChunk(st.completionID, st.created, st.Model)

\* WriteChunk that goes on to the flush whatever writeSSEChunk returned
WriteChunk_IgnoreErr ==
  /\ pc = "write"
  /\ next \in 1..3
  /\ \E ok \in BOOLEAN : w' = writeSSEChunk(w, ChunkAt(stream, next), next, ok)
  /\ pc' = "flush"
  /\ UNCHANGED <<req, next, rBody, stream, now, nReadBody, nFullParse,
                 nDownstream, dsBuf, completion>>

\* if err := writeSSEChunk(w, chunk); err != nil { return }
WriteChunk ==
  /\ pc = "write"
  /\ next \in 1..3
  /\ \E ok \in BOOLEAN :
       /\ w' = writeSSEChunk(w, ChunkAt(stream, next), next, ok)
       /\ pc' = IF ok THEN "flush" ELSE "done"
  /\ UNCHANGED <<req, next, rBody, stream, now, nReadBody, nFullParse,
                 nDownstream, dsBuf, completion>>

\* _, _ = fmt.Fprintf(w, "data: [DONE]\n\n")
WriteDone ==
  /\ pc = "write"
  /\ next = 4
  /\ \E ok \in BOOLEAN : w' = WriteFrame(w, DoneFrame, 4, ok)
  /\ pc' = "flush"
  /\ UNCHANGED <<req, next, rBody, stream, now, nReadBody, nFullParse,
                 nDownstream, dsBuf, completion>>

\* FlushFrame without the call of flusher.Flush()
FlushFrame_NoFlush ==
  /\ pc = "flush"
  /\ w' = w
  /\ IF next = 4 THEN pc' = "done" /\ next' = next
     ELSE pc' = "write" /\ next' = next + 1
  /\ UNCHANGED <<req, rBody, stream, now, nReadBody, nFullParse, nDownstream,
                 dsBuf, completion>>

\* flusher.Flush() after a frame; after the fourth the handler returns
FlushFrame ==
  /\ pc = "flush"
  /\ w' = Flush(w)
  /\ IF next = 4 THEN pc' = "done" /\ next' = next
     ELSE pc' = "write" /\ next' = next + 1
  /\ UNCHANGED <<req, rBody, stream, now, nReadBody, nFullParse, nDownstream,
                 dsBuf, completion>>

\* --------------------------------------------------------------- downstream
\* the downstream responder reads r.Body with a buffer of n bytes
OgenRead ==
  /\ pc = "downstream"
  /\ \E n \in 0..MaxBuf :
       LET rd == bytesReaderRead(rBody, n)
       IN  /\ ~rd.eof
           /\ rBody' = rd.r
           /\ dsBuf' = dsBuf \o rd.p
  /\ UNCHANGED <<req, pc, next, w, stream, now, nReadBody, nFullParse,
                 nDownstream, completion>>

\* at the end of the body the downstream responder decodes what it read and,
\* for a chat request, answers with CreateChatCompletion
OgenRespond ==
  /\ pc = "downstream"
  /\ bytesReaderRead(rBody, MaxBuf).eof
  /\ \E u \in 1..NumUUIDs :
       LET chatReq == UnmarshalChatRequest(dsBuf)
           isChat == req.method = "POST" /\ req.path = ChatPath
           w1 == [w EXCEPT !.header.ContentType = "application/json"]
       IN  IF isChat /\ chatReq.err
           THEN /\ w' = WriteHeader(w1, "downstream", StatusBadRequest)
                /\ completion' = completion
           ELSE /\ w' = WriteHeader(w1, "downstream", StatusOK)
                /\ completion' = IF isChat THEN CreateChatCompletion(chatReq, u, now)
                                 ELSE completion
  /\ pc' = "done"
  /\ UNCHANGED <<req, next, rBody, stream, now, nReadBody, nFullParse,
                 nDownstream, dsBuf>>

\* time passes while the response is streamed
Tick ==
  /\ pc \in {"write", "flush"}
  /\ now < MaxClock
  /\ now' = now + 1
  /\ UNCHANGED <<req, pc, next, w, rBody, stream, nReadBody, nFullParse,
                 nDownstream, dsBuf, completion>>

Next ==
  \/ ServeHTTP
  \/ WriteChunk
  \/ WriteDone
  \/ FlushFrame
  \/ OgenRead
  \/ OgenRespond
  \/ Tick

Spec == Init /\ [][Next]_vars

TypeOK ==
  /\ pc \in {"start", "write", "flush", "downstream", "done"}
  /\ next \in 1..4
  /\ now \in 1..MaxClock

\* ------------------------------------------------------------------ claims
\* the request seen from outside, without the program's own decoders
Inspected == req.method = "POST" /\ req.path \in {ChatPath, CompletionsPath}
BodyArrived == req.errAt = NoErr
SentModel == GetMember(req.body, "model")
SentStream == GetMember(req.body, "stream")
SentMessages == GetMember(req.body, "messages")

\* the interceptor has called handleStreamingRequest
StreamingUsed == \E i \in 1..Len(w.log) : w.log[i].op = "header"

\* a frame write was attempted
FrameWriteAttempted == \E i \in 1..Len(w.log) : w.log[i].op = "write" /\ w.log[i].k >= 1

AllWritesSucceeded == \A i \in 1..Len(w.log) : w.log[i].ok

\* the content of the user message nearest to the end, "" when there is none
SpecLastUser(msgs) ==
  LET U == {i \in 1..Len(msgs) : msgs[i].Role = "user"}
  IN  IF U = {} THEN <<>>
      ELSE msgs[CHOOSE i \in U : \A j \in U : j <= i].Content

\* the four frames of a complete stream, as the specification lists them
SpecFrames ==
  LET d == [kind |-> "data", id |-> stream.completionID, created |-> stream.created,
            model |-> SentModel.s, hasRole |-> FALSE, role |-> "",
            hasContent |-> FALSE, content |-> <<>>, finish_reason |-> "null"]
  IN  << [d EXCEPT !.hasRole = TRUE, !.role = "assistant"],
         [d EXCEPT !.hasContent = TRUE,
                   !.content = <<"E", "c", "h", "o", ":", " ">> \o SpecLastUser(SentMessages.a)],
         [d EXCEPT !.finish_reason = "stop"],
         [d EXCEPT !.kind = "[DONE]", !.id = NoID, !.created = 0, !.model = ""] >>

IsPrefix(s, t) == Len(s) <= Len(t) /\ s = SubSeq(t, 1, Len(s))

CreditErrorRequest ==
  /\ Inspected
  /\ BodyArrived
  /\ ValidJSON(req.body)
  /\ SentModel = JStr(CreditErrorModelName)

\* C1: a POST to either completions endpoint whose body, once received, is a
\* JSON object with model "credit-error" is answered 402 with the fixed
\* insufficient_quota payload, whatever its other members; it is not fully
\* parsed, no frame is written for it and it is not forwarded.
C1_CreditErrorShortCircuit ==
  (CreditErrorRequest /\ pc # "start") =>
    /\ pc = "done"
    /\ w.status = StatusPaymentRequired
    /\ w.quota.set
    /\ w.quota.type = "insufficient_quota"
    /\ w.quota.code = "insufficient_quota"
    /\ w.quota.param = "null"
    /\ nFullParse = 0
    /\ ~StreamingUsed
    /\ ~FrameWriteAttempted
    /\ w.frames = <<>>
    /\ nDownstream = 0
    /\ ~completion.set

C1_Witness ==
  /\ CreditErrorRequest
  /\ req.path = ChatPath
  /\ SentStream = JBool(TRUE)
  /\ SentMessages.t = "none"
  /\ pc = "done"
  /\ w.status = StatusPaymentRequired

\* C2: the frames of a streaming response are always a prefix of the sequence
\* role chunk, content chunk ("Echo: " + last user message), finish chunk,
\* [DONE]; when the handler has returned and every write succeeded they are
\* exactly these four.
C2_FourFramesInOrder ==
  (stream # NoStream) =>
    /\ IsPrefix(w.frames, SpecFrames)
    /\ (pc = "done" /\ AllWritesSucceeded) => w.frames = SpecFrames

C2_Witness ==
  /\ stream # NoStream
  /\ pc = "done"
  /\ AllWritesSucceeded
  /\ Len(w.frames) = 4
  /\ w.frames[4].kind = "[DONE]"
  /\ w.frames[2].content = <<"E", "c", "h", "o", ":", " ", "a">>

\* C3: every data frame written so far carries the identifier and the created
\* value fixed when the stream started, in every state of the stream, aborted
\* or not.
C3_SharedIdAndCreated ==
  \A i \in 1..Len(w.frames) :
    w.frames[i].kind = "data" =>
      /\ w.frames[i].id = stream.completionID
      /\ w.frames[i].created = stream.created
      /\ w.frames[i].id = w.frames[1].id
      /\ w.frames[i].created = w.frames[1].created

\* a stream aborted at its third frame, while the clock moved on
C3_Witness ==
  /\ Len(w.frames) = 2
  /\ pc = "done"
  /\ now > stream.created
  /\ w.frames[2].id = w.frames[1].id

\* the request the interceptor is to stream
StreamingRequest ==
  /\ req.method = "POST"
  /\ req.path = ChatPath
  /\ BodyArrived
  /\ ValidJSON(req.body)
  /\ SentModel.t = "str"
  /\ SentModel.s # CreditErrorModelName
  /\ SentMessages.t = "arr"
  /\ SentStream = JBool(TRUE)

\* a chat request that parses, is not the credit-error model and does not ask
\* for a stream
PlainChatRequest ==
  /\ req.method = "POST"
  /\ req.path = ChatPath
  /\ BodyArrived
  /\ ValidJSON(req.body)
  /\ SentModel.t = "str"
  /\ SentModel.s # CreditErrorModelName
  /\ SentMessages.t = "arr"
  /\ SentStream \in {JNone, JBool(FALSE)}

\* a completions request that passes the model check
PlainCompletionsRequest ==
  /\ req.method = "POST"
  /\ req.path = CompletionsPath
  /\ BodyArrived
  /\ ValidJSON(req.body)
  /\ SentModel.t \in {"none", "str"}
  /\ SentModel.s # CreditErrorModelName

Forwarded == nDownstream = 1 /\ pc \in {"downstream", "done"}

NoEventStream ==
  /\ ~StreamingUsed
  /\ w.frames = <<>>
  /\ w.sent.ContentType # "text/event-stream"
  /\ \A i \in 1..Len(w.log) : w.log[i].by = "interceptor" => w.log[i].k \notin 1..4

\* C4: handleStreamingRequest is called if and only if the request is a POST
\* to /v1/chat/completions whose body parses, whose model is not
\* "credit-error" and whose stream member is true.  A chat request that
\* differs from that only in stream being absent or false, a completions POST
\* that passes the model check (even with stream: true) and every request
\* with another method or path are forwarded and get no event stream.
C4_StreamingIffChatStreamTrue ==
  (pc # "start") =>
    /\ StreamingUsed <=> StreamingRequest
    /\ ~StreamingRequest => NoEventStream
    /\ PlainChatRequest => Forwarded
    /\ PlainCompletionsRequest => Forwarded
    /\ ~Inspected => Forwarded

C4_Witness ==
  /\ req.path = CompletionsPath
  /\ PlainCompletionsRequest
  /\ SentStream = JBool(TRUE)
  /\ SentMessages.t = "arr"
  /\ pc = "done"
  /\ Forwarded

\* C5: when an inspected request is forwarded, what the downstream responder
\* has read is always the first bytes of the body the client sent, in order,
\* with nothing repeated, for every size of read buffer; the end of the
\* stream comes exactly when it has read them all.
C5_RestoredBodyIsTheBody ==
  (Inspected /\ Forwarded) =>
    /\ IsPrefix(dsBuf, req.body)
    /\ rBody.data = req.body
    /\ rBody.pos = Len(dsBuf)
    /\ bytesReaderRead(rBody, MaxBuf).eof <=> dsBuf = req.body
    /\ pc = "done" => dsBuf = req.body

C5_Witness ==
  /\ Inspected
  /\ Forwarded
  /\ pc = "done"
  /\ Len(req.body) = 5
  /\ dsBuf = req.body

\* the body cannot be read to its end, or is not JSON the model can be taken from
UnreadableOrUnparseable ==
  \/ ~BodyArrived
  \/ ~ValidJSON(req.body)
  \/ SentModel.t \notin {"none", "str"}

\* C6: a POST to either completions endpoint whose body cannot be read to its
\* end, or does not parse when the model is looked for, is answered 400 and
\* goes no further: the downstream responder is not invoked and reads nothing,
\* and no frame is written.
C6_BadBodyIs400 ==
  (Inspected /\ UnreadableOrUnparseable /\ pc # "start") =>
    /\ pc = "done"
    /\ w.status = StatusBadRequest
    /\ w.text \in {"Failed to read request body", "Failed to parse request body"}
    /\ ~BodyArrived => w.text = "Failed to read request body"
    /\ nDownstream = 0
    /\ dsBuf = <<>>
    /\ ~completion.set
    /\ ~StreamingUsed
    /\ ~FrameWriteAttempted
    /\ w.frames = <<>>

\* the transport fails after the last byte of a body that would have streamed
C6_Witness ==
  /\ req.path = ChatPath
  /\ Inspected
  /\ req.errAt = Len(req.body)
  /\ ValidJSON(req.body)
  /\ SentModel = JStr("gpt-4")
  /\ SentStream = JBool(TRUE)
  /\ SentMessages.t = "arr"
  /\ pc = "done"
  /\ w.status = StatusBadRequest

\* C7: a streaming chat request on a transport without http.Flusher is
\* answered 500; no data frame and no [DONE] frame is written or attempted,
\* and the headers sent do not announce text/event-stream.
C7_NoFlusherIs500 ==
  (StreamingRequest /\ ~req.flusher /\ pc # "start") =>
    /\ pc = "done"
    /\ w.status = StatusInternalServerError
    /\ w.text = "Streaming not supported"
    /\ ~FrameWriteAttempted
    /\ w.frames = <<>>
    /\ w.flushed = 0
    /\ w.sent.ContentType # "text/event-stream"

C7_Witness ==
  /\ StreamingRequest
  /\ ~req.flusher
  /\ pc = "done"
  /\ w.status = StatusInternalServerError
  /\ w.header.CacheControl = "no-cache"

\* a failed write of frame k is the i-th line of the log
FailedWriteAt(i) ==
  /\ i \in 1..Len(w.log)
  /\ w.log[i].op = "write"
  /\ w.log[i].k >= 1
  /\ ~w.log[i].ok

\* C8: once the write of a frame has failed, no write is attempted after it
\* (no later frame, no [DONE], no retry), no status and no error body is
\* written, the handler returns, and the frames on the transport are the
\* frames before the failed one: a strict prefix of the four.
C8_WriteFailureAborts ==
  \A i \in 1..Len(w.log) :
    FailedWriteAt(i) =>
      /\ \A j \in (i + 1)..Len(w.log) : w.log[j].op \notin {"write", "status", "header"}
      /\ w.log[i].k <= 3 => (i = Len(w.log) /\ pc = "done")
      /\ pc \in {"flush", "done"}
      /\ Len(w.frames) = w.log[i].k - 1
      /\ Len(w.frames) < 4
      /\ IsPrefix(w.frames, SpecFrames)
      /\ w.flushed <= Len(w.frames)
      /\ w.status = StatusOK
      /\ w.text = ""
      /\ ~w.quota.set

\* the content chunk could not be written
C8_Witness ==
  /\ pc = "done"
  /\ FailedWriteAt(Len(w.log))
  /\ w.log[Len(w.log)].k = 2
  /\ Len(w.frames) = 1
  /\ w.flushed = 1

\* the reply the specification gives to the request's messages
SpecEcho == <<"E", "c", "h", "o", ":", " ">> \o SpecLastUser(SentMessages.a)

\* C9: the text echoed to a chat request, in the content chunk of a stream
\* and in the message of a non-streaming response, is "Echo: " followed by the
\* content of the user message nearest to the end of the list, and is
\* "Echo: " alone when the list is empty or has no user message.
C9_EchoOfLastUserMessage ==
  /\ completion.set => completion.Content = SpecEcho
  /\ stream # NoStream => stream.echoMessage = SpecEcho
  /\ (stream # NoStream /\ Len(w.frames) >= 2) =>
       (w.frames[2].hasContent /\ w.frames[2].content = SpecEcho)

\* two user messages and the reply echoes the second
C9_Witness ==
  /\ completion.set
  /\ Len(SentMessages.a) = 2
  /\ SentMessages.a[1] = [Role |-> "user", Content |-> <<"a">>]
  /\ SentMessages.a[2] = [Role |-> "user", Content |-> <<"U+00E9">>]
  /\ completion.Content = <<"E", "c", "h", "o", ":", " ", "U+00E9">>

\* the number of bytes of the UTF-8 encoding, counted character by character
Utf8Bytes(s) == Len(s) + Cardinality({i \in 1..Len(s) : s[i] = "U+00E9"})

\* C10 as stated: the usage of a non-streaming chat response counts
\* characters, prompt_tokens of the last user message and completion_tokens
\* of the reply, for every content.
C10_UsageCountsCharacters ==
  completion.set =>
    /\ completion.Usage.TotalTokens =
         completion.Usage.PromptTokens + completion.Usage.CompletionTokens
    /\ completion.Usage.PromptTokens = Len(SpecLastUser(SentMessages.a))
    /\ completion.Usage.CompletionTokens = Len(completion.Content)
    /\ completion.Usage.CompletionTokens = completion.Usage.PromptTokens + 6

\* C10 amended: the usage of a non-streaming chat response counts bytes of
\* the UTF-8 encoding: prompt_tokens of the last user message,
\* completion_tokens of the reply (so six more), total_tokens their sum.
C10_UsageCountsBytes ==
  completion.set =>
    /\ completion.Usage.TotalTokens =
         completion.Usage.PromptTokens + completion.Usage.CompletionTokens
    /\ completion.Usage.PromptTokens = Utf8Bytes(SpecLastUser(SentMessages.a))
    /\ completion.Usage.CompletionTokens = Utf8Bytes(completion.Content)
    /\ completion.Usage.CompletionTokens = completion.Usage.PromptTokens + 6

\* a last user message of one character and two bytes
C10_Witness ==
  /\ completion.set
  /\ SpecLastUser(SentMessages.a) = <<"U+00E9">>
  /\ completion.Usage.PromptTokens = 2
  /\ completion.Usage.CompletionTokens = 8
  /\ completion.Usage.TotalTokens = 10

\* the i-th line of the log is the write of a frame
FrameWriteAt(i) == i \in 1..Len(w.log) /\ w.log[i].op = "write" /\ w.log[i].k >= 1

FlushBetween(i, j) == \E m \in (i + 1)..(j - 1) : w.log[m].op = "flush"

\* C11: in a streaming response there is a flush between any two frame
\* writes, and one after the [DONE] write when the handler has returned; each
\* frame written so far is flushed when the next is about to be written; the
\* four SSE headers are set before the first frame write and are the headers
\* sent with it.
C11_FlushAfterEveryFrame ==
  /\ \A i, j \in 1..Len(w.log) :
       (i < j /\ FrameWriteAt(i) /\ FrameWriteAt(j)) => FlushBetween(i, j)
  /\ \A i \in 1..Len(w.log) :
       (FrameWriteAt(i) /\ w.log[i].k = 4 /\ pc = "done") =>
         FlushBetween(i, Len(w.log) + 1)
  /\ (pc = "write" /\ stream # NoStream) =>
       (w.flushed = Len(w.frames) /\ Len(w.frames) = next - 1)
  /\ \A i \in 1..Len(w.log) :
       FrameWriteAt(i) =>
         /\ \E h \in 1..(i - 1) : w.log[h].op = "header"
         /\ w.sent.ContentType = "text/event-stream"
         /\ w.sent.CacheControl = "no-cache"
         /\ w.sent.Connection = "keep-alive"
         /\ w.sent.XAccelBuffering = "no"

\* a stream cut at its third frame: the two frames before it were flushed
C11_Witness ==
  /\ pc = "done"
  /\ FailedWriteAt(Len(w.log))
  /\ w.log[Len(w.log)].k = 3
  /\ w.flushed = 2
  /\ Len(w.frames) = 2
  /\ w.sent.ContentType = "text/event-stream"

\* a chat POST whose body gives a model other than "credit-error" (or none)
\* but is not a ChatRequest: model or messages missing or of another type, or
\* a stream member that is not a boolean
SniffedButNotChatRequest ==
  /\ req.method = "POST"
  /\ req.path = ChatPath
  /\ BodyArrived
  /\ ValidJSON(req.body)
  /\ SentModel.t \in {"none", "str"}
  /\ SentModel.s # CreditErrorModelName
  /\ \/ SentModel.t = "none"
     \/ SentMessages.t # "arr"
     \/ SentStream.t \notin {"none", "bool"}

\* C12: a chat POST that passes the model check but fails the full parse is
\* answered 400 by the interceptor and not forwarded, whether or not it asks
\* for a stream; handleStreamingRequest is only called after a full parse that
\* succeeded.
C12_FullParseFailureIs400 ==
  /\ (SniffedButNotChatRequest /\ pc # "start") =>
       /\ pc = "done"
       /\ w.status = StatusBadRequest
       /\ w.text = "Failed to parse request body"
       /\ \A i \in 1..Len(w.log) : w.log[i].by = "interceptor"
       /\ nFullParse = 1
       /\ nDownstream = 0
       /\ dsBuf = <<>>
       /\ ~completion.set
       /\ ~StreamingUsed
       /\ w.frames = <<>>
  /\ StreamingUsed =>
       (nFullParse = 1 /\ ~SniffedButNotChatRequest /\ SentMessages.t = "arr")

\* stream: true without messages
C12_Witness ==
  /\ SniffedButNotChatRequest
  /\ SentModel = JStr("gpt-4")
  /\ SentStream = JBool(TRUE)
  /\ SentMessages.t = "none"
  /\ req.flusher
  /\ pc = "done"
  /\ w.status = StatusBadRequest

\* who has written to the response
WrittenBy(by) == \E i \in 1..Len(w.log) : w.log[i].by = by

\* the three ways a request ends
InterceptorError ==
  /\ WrittenBy("interceptor")
  /\ w.status \in {StatusBadRequest, StatusPaymentRequired, StatusInternalServerError}
  /\ stream = NoStream
  /\ nDownstream = 0

InterceptorStream ==
  /\ WrittenBy("interceptor")
  /\ stream # NoStream
  /\ FrameWriteAttempted
  /\ w.status = StatusOK
  /\ nDownstream = 0

DownstreamOnce ==
  /\ nDownstream = 1
  /\ ~WrittenBy("interceptor")
  /\ stream = NoStream

BoolToNat(b) == IF b THEN 1 ELSE 0

\* C13: a request that has been handled ended in exactly one of: an error
\* response of the interceptor (400, 402, 500), a streaming response of the
\* interceptor, one call of the downstream responder.  In every state the
\* downstream responder has been called at most once and never for a response
\* the interceptor wrote to, and readBodyAndCheckCreditError has run at most
\* once.
C13_ExactlyOneOutcome ==
  /\ pc = "done" =>
       BoolToNat(InterceptorError) + BoolToNat(InterceptorStream)
         + BoolToNat(DownstreamOnce) = 1
  /\ nDownstream <= 1
  /\ ~(nDownstream >= 1 /\ WrittenBy("interceptor"))
  /\ WrittenBy("downstream") => nDownstream = 1
  /\ pc \in {"write", "flush"} => (nDownstream = 0 /\ stream # NoStream)
  /\ pc = "downstream" => nDownstream = 1
  /\ nReadBody <= 1
  /\ nFullParse <= nReadBody

\* a chat request without stream: read and parsed once, then forwarded and
\* answered by the downstream responder alone
C13_Witness ==
  /\ PlainChatRequest
  /\ pc = "done"
  /\ DownstreamOnce
  /\ nReadBody = 1
  /\ nFullParse = 1
  /\ completion.set
  /\ WrittenBy("downstream")
====
